---- MODULE Spec2Model ----
(***************************************************************************)
(* State-machine model of the noice_solana program                         *)
(* (src/programs/noice-solana/src/lib.rs): user profiles with an           *)
(* interaction counter, tips paid in SPL tokens, paywalls and their         *)
(* unlocking.                                                              *)
(*                                                                         *)
(* Every instruction is one atomic action.  An instruction is executed in  *)
(* three stages, as the #[program] entry point does: the account set is     *)
(* validated against its #[derive(Accounts)] constraints, the handler runs  *)
(* on the loaded accounts, and the accounts it wrote are stored only when   *)
(* the handler returned Ok; an Err aborts the transaction and nothing of    *)
(* it is kept.                                                             *)
(***************************************************************************)
EXTENDS Integers, Sequences, FiniteSets, TLC

(* ------------------------------ bounds --------------------------------- *)
\* Number of instructions that return Ok in one behaviour; no instruction is
\* submitted after that many.
MaxOps == 3
\* Largest tip amount and paywall price submitted.
MaxAmount == 1
\* Width of the two counters in the model.  The program's counters are u64;
\* the model keeps the arithmetic of a fixed width and scales the width down.
CounterBits == 3

(* ----------------------------- universe -------------------------------- *)
Identity == {"A", "B"}
Mints == {"M", "N"}
ContentIds == {"x", "y"}
ActionTexts == {"like"}
Amounts == 0 .. MaxAmount

\* The SPL token accounts that exist: their owner (authority) and mint are
\* fixed, only the balance changes.
TokenAccts == {"aM", "bM", "bN"}
acctOwner == [t \in TokenAccts |-> IF t = "aM" THEN "A" ELSE "B"]
acctMint == [t \in TokenAccts |-> IF t = "bN" THEN "N" ELSE "M"]
InitBalance == [t \in TokenAccts |-> IF t = "bM" THEN 2 ELSE 1]

\* Program-derived addresses: seeds -> address, one address per seed list
\* (seeds = [b"user_profile", user.key()], [b"paywall", creator.key(), content_id]).
ProfileAddr(owner) == <<"user_profile", owner>>
PaywallAddr(creator, content_id) == <<"paywall", creator, content_id>>
ProfileAddrs == {ProfileAddr(o) : o \in Identity}
PaywallAddrs == {PaywallAddr(c, x) : c \in Identity, x \in ContentIds}

\* u64::MAX of the counters, at the model's width.
U64Max == 2 ^ CounterBits - 1

\* The build profile of the program: `overflow-checks = true`, under which
\* `+= 1` on a u64 that holds u64::MAX panics and the instruction fails (with
\* `false` it would wrap to 0).
overflow_checks == TRUE

\* An address that holds no account of the program.
Absent == [present |-> FALSE]

(* ------------------------------- state --------------------------------- *)
VARIABLES
    profiles,    \* ProfileAddrs -> UserProfile account, or Absent
    paywalls,    \* PaywallAddrs -> Paywall account, or Absent
    balance,     \* TokenAccts -> amount held
    events,      \* the events emitted so far, oldest first
    last,        \* the instruction under observation: its name, inputs and result
    tipsOk,      \* ProfileAddrs -> number of tips on it that returned Ok
    unlocksOk,   \* PaywallAddrs -> number of unlocks of it that returned Ok
    succeeded    \* number of instructions that returned Ok

vars == <<profiles, paywalls, balance, events, last, tipsOk, unlocksOk, succeeded>>

UserProfile(owner, n) ==
    [present |-> TRUE, owner |-> owner, interaction_count |-> n]

Paywall(creator, content_id, price, token_mint, n) ==
    [present |-> TRUE, creator |-> creator, content_id |-> content_id,
     price |-> price, token_mint |-> token_mint, access_count |-> n]

TipEvent(sender, recipient, token_mint, amount, action) ==
    [kind |-> "TipEvent", sender |-> sender, recipient |-> recipient,
     token_mint |-> token_mint, amount |-> amount, action |-> action]

PaywallUnlockEvent(user, creator, content_id, token_mint, amount) ==
    [kind |-> "PaywallUnlockEvent", user |-> user, creator |-> creator,
     content_id |-> content_id, token_mint |-> token_mint, amount |-> amount]

\* No instruction has been observed yet.
NoCall == [op |-> "none", err |-> "Ok"]

Init ==
    /\ profiles = [a \in ProfileAddrs |-> Absent]
    /\ paywalls = [a \in PaywallAddrs |-> Absent]
    /\ balance = InitBalance
    /\ events = <<>>
    /\ last = NoCall
    /\ tipsOk = [a \in ProfileAddrs |-> 0]
    /\ unlocksOk = [a \in PaywallAddrs |-> 0]
    /\ succeeded = 0

(* ------------------------- the transfer primitive ----------------------- *)
\* token::transfer(CpiContext::new(token_program, Transfer{from, to, authority}),
\* amount): the SPL Token program's Transfer, called by tip and unlock_paywall.
\* It checks the balance, then the two mints, then the authority (the owner of
\* the source account; the authority is a Signer of the instruction); a transfer
\* from an account to itself, or of amount 0, then succeeds and moves nothing.
\* Mutant of token_transfer: a transfer from an account to itself writes the
\* credited balance last.
token_transfer_SelfCredit(bal, from, to, authority, amount) ==
    IF bal[from] < amount THEN [err |-> "InsufficientFunds", balance |-> bal]
    ELSE IF acctMint[from] # acctMint[to] THEN [err |-> "MintMismatch", balance |-> bal]
    ELSE IF acctOwner[from] # authority THEN [err |-> "OwnerMismatch", balance |-> bal]
    ELSE IF from = to
         THEN [err |-> "Ok", balance |-> [bal EXCEPT ![to] = @ + amount]]
    ELSE [err |-> "Ok",
          balance |-> [bal EXCEPT ![from] = @ - amount, ![to] = @ + amount]]

token_transfer(bal, from, to, authority, amount) ==
    IF bal[from] < amount THEN [err |-> "InsufficientFunds", balance |-> bal]
    ELSE IF acctMint[from] # acctMint[to] THEN [err |-> "MintMismatch", balance |-> bal]
    ELSE IF acctOwner[from] # authority THEN [err |-> "OwnerMismatch", balance |-> bal]
    ELSE IF from = to \/ amount = 0 THEN [err |-> "Ok", balance |-> bal]
    ELSE [err |-> "Ok",
          balance |-> [bal EXCEPT ![from] = @ - amount, ![to] = @ + amount]]

\* The errors token::transfer returns.
TransferErrors == {"InsufficientFunds", "MintMismatch", "OwnerMismatch"}

\* What a handler leaves behind when it returns: its result and the ledger as
\* the handler wrote it.
Outcome(err, prof, pay, bal, evs) ==
    [err |-> err, profiles |-> prof, paywalls |-> pay, balance |-> bal, events |-> evs]

(* ---------------------------- initialize_user --------------------------- *)
\* #[derive(Accounts)] InitializeUser: user_profile is `init` at the address
\* derived from seeds [b"user_profile", user.key()]; creating an account at an
\* address that is in use fails.
\* Mutant of InitializeUser: as with init_if_needed, an existing account passes.
InitializeUser_IfNeeded(ctx) ==
    IF ctx.user_profile # ProfileAddr(ctx.user) THEN "ConstraintSeeds" ELSE "Ok"

InitializeUser(ctx) ==
    IF ctx.user_profile # ProfileAddr(ctx.user) THEN "ConstraintSeeds"
    ELSE IF profiles[ctx.user_profile].present THEN "AlreadyExists"
    ELSE "Ok"

initialize_user(ctx) ==
    Outcome("Ok",
            [profiles EXCEPT ![ctx.user_profile] = UserProfile(ctx.user, 0)],
            paywalls, balance, events)

(* --------------------------------- tip ---------------------------------- *)
\* #[derive(Accounts)] Tip: recipient_profile is an existing UserProfile account
\* whose address is the one derived from seeds [b"user_profile", recipient.key()].
\* Mutant of Tip: recipient_profile carries no seeds constraint.
Tip_NoSeeds(ctx) ==
    IF ~profiles[ctx.recipient_profile].present THEN "AccountNotInitialized" ELSE "Ok"

Tip(ctx) ==
    IF ~profiles[ctx.recipient_profile].present THEN "AccountNotInitialized"
    ELSE IF ctx.recipient_profile # ProfileAddr(ctx.recipient) THEN "ConstraintSeeds"
    ELSE "Ok"

\* Mutant of tip: only the sender's token account is compared with the mint.
tip_SenderMintOnly(ctx, amount, action, _token_mint) ==
    LET prof == [profiles EXCEPT ![ctx.recipient_profile].interaction_count = @ + 1]
    IN  IF acctMint[ctx.sender_token_account] # ctx.token_mint
        THEN Outcome("InvalidTokenMint", prof, paywalls, balance, events)
        ELSE LET cpi == token_transfer(balance, ctx.sender_token_account,
                                       ctx.recipient_token_account, ctx.sender, amount)
             IN  IF cpi.err # "Ok"
                 THEN Outcome(cpi.err, prof, paywalls, balance, events)
                 ELSE Outcome("Ok", prof, paywalls, cpi.balance,
                              Append(events, TipEvent(ctx.sender, ctx.recipient,
                                                      ctx.token_mint, amount, action)))

\* Mutant of tip: a tip of nothing is not counted.
tip_CountsPaidOnly(ctx, amount, action, _token_mint) ==
    LET prof == IF amount = 0 THEN profiles
                ELSE [profiles EXCEPT ![ctx.recipient_profile].interaction_count = @ + 1]
    IN  IF \/ acctMint[ctx.sender_token_account] # ctx.token_mint
           \/ acctMint[ctx.recipient_token_account] # ctx.token_mint
        THEN Outcome("InvalidTokenMint", prof, paywalls, balance, events)
        ELSE LET cpi == token_transfer(balance, ctx.sender_token_account,
                                       ctx.recipient_token_account, ctx.sender, amount)
             IN  IF cpi.err # "Ok"
                 THEN Outcome(cpi.err, prof, paywalls, balance, events)
                 ELSE Outcome("Ok", prof, paywalls, cpi.balance,
                              Append(events, TipEvent(ctx.sender, ctx.recipient,
                                                      ctx.token_mint, amount, action)))

\* Mutant of tip: an amount of 0 is refused.
tip_PositiveOnly(ctx, amount, action, _token_mint) ==
    LET prof == [profiles EXCEPT ![ctx.recipient_profile].interaction_count = @ + 1]
    IN  IF amount = 0
        THEN Outcome("InvalidAmount", prof, paywalls, balance, events)
        ELSE IF \/ acctMint[ctx.sender_token_account] # ctx.token_mint
                \/ acctMint[ctx.recipient_token_account] # ctx.token_mint
        THEN Outcome("InvalidTokenMint", prof, paywalls, balance, events)
        ELSE LET cpi == token_transfer(balance, ctx.sender_token_account,
                                       ctx.recipient_token_account, ctx.sender, amount)
             IN  IF cpi.err # "Ok"
                 THEN Outcome(cpi.err, prof, paywalls, balance, events)
                 ELSE Outcome("Ok", prof, paywalls, cpi.balance,
                              Append(events, TipEvent(ctx.sender, ctx.recipient,
                                                      ctx.token_mint, amount, action)))

\* Mutant of tip: the sender's own profile, when there is one, counts the tip
\* as well.
tip_CountsSenderToo(ctx, amount, action, _token_mint) ==
    LET prof == [a \in ProfileAddrs |->
                    IF a = ctx.recipient_profile
                       \/ (a = ProfileAddr(ctx.sender) /\ profiles[a].present)
                    THEN [profiles[a] EXCEPT !.interaction_count = @ + 1]
                    ELSE profiles[a]]
    IN  IF \/ acctMint[ctx.sender_token_account] # ctx.token_mint
           \/ acctMint[ctx.recipient_token_account] # ctx.token_mint
        THEN Outcome("InvalidTokenMint", prof, paywalls, balance, events)
        ELSE LET cpi == token_transfer(balance, ctx.sender_token_account,
                                       ctx.recipient_token_account, ctx.sender, amount)
             IN  IF cpi.err # "Ok"
                 THEN Outcome(cpi.err, prof, paywalls, balance, events)
                 ELSE Outcome("Ok", prof, paywalls, cpi.balance,
                              Append(events, TipEvent(ctx.sender, ctx.recipient,
                                                      ctx.token_mint, amount, action)))

\* Mutant of tip: the transfer is made before the mints are compared.
tip_TransferFirst(ctx, amount, action, _token_mint) ==
    LET prof == [profiles EXCEPT ![ctx.recipient_profile].interaction_count = @ + 1]
        cpi == token_transfer(balance, ctx.sender_token_account,
                              ctx.recipient_token_account, ctx.sender, amount)
    IN  IF cpi.err # "Ok"
        THEN Outcome(cpi.err, prof, paywalls, balance, events)
        ELSE IF \/ acctMint[ctx.sender_token_account] # ctx.token_mint
                \/ acctMint[ctx.recipient_token_account] # ctx.token_mint
        THEN Outcome("InvalidTokenMint", prof, paywalls, cpi.balance, events)
        ELSE Outcome("Ok", prof, paywalls, cpi.balance,
                     Append(events, TipEvent(ctx.sender, ctx.recipient,
                                             ctx.token_mint, amount, action)))

\* Mutant of tip: the counter is incremented with wrapping_add.
tip_WrappingAdd(ctx, amount, action, _token_mint) ==
    LET prof == [profiles EXCEPT ![ctx.recipient_profile].interaction_count =
                                     (@ + 1) % (U64Max + 1)]
    IN  IF \/ acctMint[ctx.sender_token_account] # ctx.token_mint
           \/ acctMint[ctx.recipient_token_account] # ctx.token_mint
        THEN Outcome("InvalidTokenMint", prof, paywalls, balance, events)
        ELSE LET cpi == token_transfer(balance, ctx.sender_token_account,
                                       ctx.recipient_token_account, ctx.sender, amount)
             IN  IF cpi.err # "Ok"
                 THEN Outcome(cpi.err, prof, paywalls, balance, events)
                 ELSE Outcome("Ok", prof, paywalls, cpi.balance,
                              Append(events, TipEvent(ctx.sender, ctx.recipient,
                                                      ctx.token_mint, amount, action)))

\* Mutant of tip: the mints are compared before the counter is incremented.
tip_MintCheckFirst(ctx, amount, action, _token_mint) ==
    IF \/ acctMint[ctx.sender_token_account] # ctx.token_mint
       \/ acctMint[ctx.recipient_token_account] # ctx.token_mint
    THEN Outcome("InvalidTokenMint", profiles, paywalls, balance, events)
    ELSE IF overflow_checks /\ profiles[ctx.recipient_profile].interaction_count = U64Max
    THEN Outcome("ProgramFailedToComplete", profiles, paywalls, balance, events)
    ELSE LET prof == [profiles EXCEPT ![ctx.recipient_profile].interaction_count =
                                         (@ + 1) % (U64Max + 1)]
             cpi == token_transfer(balance, ctx.sender_token_account,
                                   ctx.recipient_token_account, ctx.sender, amount)
         IN  IF cpi.err # "Ok"
             THEN Outcome(cpi.err, prof, paywalls, balance, events)
             ELSE Outcome("Ok", prof, paywalls, cpi.balance,
                          Append(events, TipEvent(ctx.sender, ctx.recipient,
                                                  ctx.token_mint, amount, action)))

\* `user_profile.interaction_count += 1` is the first statement of tip: on a
\* counter that holds u64::MAX it panics before anything is compared, and the
\* instruction fails.
tip(ctx, amount, action, _token_mint) ==
    IF overflow_checks /\ profiles[ctx.recipient_profile].interaction_count = U64Max
    THEN Outcome("ProgramFailedToComplete", profiles, paywalls, balance, events)
    ELSE
    LET \* user_profile.interaction_count += 1, before any check
        prof == [profiles EXCEPT ![ctx.recipient_profile].interaction_count =
                                    (@ + 1) % (U64Max + 1)]
    IN  IF \/ acctMint[ctx.sender_token_account] # ctx.token_mint
           \/ acctMint[ctx.recipient_token_account] # ctx.token_mint
        THEN Outcome("InvalidTokenMint", prof, paywalls, balance, events)
        ELSE LET cpi == token_transfer(balance, ctx.sender_token_account,
                                       ctx.recipient_token_account, ctx.sender, amount)
             IN  IF cpi.err # "Ok"
                 THEN Outcome(cpi.err, prof, paywalls, balance, events)
                 ELSE Outcome("Ok", prof, paywalls, cpi.balance,
                              Append(events, TipEvent(ctx.sender, ctx.recipient,
                                                      ctx.token_mint, amount, action)))

(* ----------------------------- create_paywall --------------------------- *)
\* #[derive(Accounts)] CreatePaywall: paywall is `init` at the address derived
\* from seeds [b"paywall", creator.key(), content_id.as_bytes()].
\* Mutant of CreatePaywall: the address is derived from the content_id alone,
\* so that it is in use as soon as any creator has a paywall for the content.
CreatePaywall_SeedsWithoutCreator(ctx, content_id) ==
    IF ctx.paywall # PaywallAddr(ctx.creator, content_id) THEN "ConstraintSeeds"
    ELSE IF \E c \in Identity : paywalls[PaywallAddr(c, content_id)].present
         THEN "AlreadyExists"
    ELSE "Ok"

CreatePaywall(ctx, content_id) ==
    IF ctx.paywall # PaywallAddr(ctx.creator, content_id) THEN "ConstraintSeeds"
    ELSE IF paywalls[ctx.paywall].present THEN "AlreadyExists"
    ELSE "Ok"

create_paywall(ctx, content_id, price, token_mint) ==
    Outcome("Ok", profiles,
            [paywalls EXCEPT ![ctx.paywall] =
                Paywall(ctx.creator, content_id, price, token_mint, 0)],
            balance, events)

(* ----------------------------- unlock_paywall --------------------------- *)
\* #[derive(Accounts)] UnlockPaywall: paywall is an existing Paywall account
\* whose address is the one derived from seeds
\* [b"paywall", paywall.creator, content_id.as_bytes()].
UnlockPaywall(ctx, content_id) ==
    IF ~paywalls[ctx.paywall].present THEN "AccountNotInitialized"
    ELSE IF ctx.paywall # PaywallAddr(paywalls[ctx.paywall].creator, content_id)
         THEN "ConstraintSeeds"
    ELSE "Ok"

\* Mutant of unlock_paywall: the paywall's stored token_mint is not compared.
unlock_paywall_NoStoredMint(ctx, content_id) ==
    LET paywall == paywalls[ctx.paywall]
        amount == paywall.price
    IN  IF \/ acctMint[ctx.user_token_account] # ctx.token_mint
           \/ acctMint[ctx.creator_token_account] # ctx.token_mint
        THEN Outcome("InvalidTokenMint", profiles, paywalls, balance, events)
        ELSE LET cpi == token_transfer(balance, ctx.user_token_account,
                                       ctx.creator_token_account, ctx.user, amount)
             IN  IF cpi.err # "Ok"
                 THEN Outcome(cpi.err, profiles, paywalls, balance, events)
                 ELSE Outcome("Ok", profiles,
                              [paywalls EXCEPT ![ctx.paywall].access_count = @ + 1],
                              cpi.balance,
                              Append(events,
                                     PaywallUnlockEvent(ctx.user, paywall.creator,
                                                        content_id, paywall.token_mint,
                                                        amount)))

\* Mutant of unlock_paywall: the amount moved is one unit, not the stored price.
unlock_paywall_UnitAmount(ctx, content_id) ==
    LET paywall == paywalls[ctx.paywall]
        amount == 1
    IN  IF \/ paywall.token_mint # ctx.token_mint
           \/ acctMint[ctx.user_token_account] # ctx.token_mint
           \/ acctMint[ctx.creator_token_account] # ctx.token_mint
        THEN Outcome("InvalidTokenMint", profiles, paywalls, balance, events)
        ELSE LET cpi == token_transfer(balance, ctx.user_token_account,
                                       ctx.creator_token_account, ctx.user, amount)
             IN  IF cpi.err # "Ok"
                 THEN Outcome(cpi.err, profiles, paywalls, balance, events)
                 ELSE Outcome("Ok", profiles,
                              [paywalls EXCEPT ![ctx.paywall].access_count = @ + 1],
                              cpi.balance,
                              Append(events,
                                     PaywallUnlockEvent(ctx.user, paywall.creator,
                                                        content_id, paywall.token_mint,
                                                        paywall.price)))

\* Mutant of unlock_paywall: a user who has unlocked any paywall is refused.
unlock_paywall_OnceForAll(ctx, content_id) ==
    LET paywall == paywalls[ctx.paywall]
        amount == paywall.price
    IN  IF \/ paywall.token_mint # ctx.token_mint
           \/ acctMint[ctx.user_token_account] # ctx.token_mint
           \/ acctMint[ctx.creator_token_account] # ctx.token_mint
        THEN Outcome("InvalidTokenMint", profiles, paywalls, balance, events)
        ELSE IF \E i \in 1 .. Len(events) :
                   /\ events[i].kind = "PaywallUnlockEvent"
                   /\ events[i].user = ctx.user
        THEN Outcome("AlreadyUnlocked", profiles, paywalls, balance, events)
        ELSE LET cpi == token_transfer(balance, ctx.user_token_account,
                                       ctx.creator_token_account, ctx.user, amount)
             IN  IF cpi.err # "Ok"
                 THEN Outcome(cpi.err, profiles, paywalls, balance, events)
                 ELSE Outcome("Ok", profiles,
                              [paywalls EXCEPT ![ctx.paywall].access_count = @ + 1],
                              cpi.balance,
                              Append(events,
                                     PaywallUnlockEvent(ctx.user, paywall.creator,
                                                        content_id, paywall.token_mint,
                                                        amount)))

\* Mutant of unlock_paywall: a user who has unlocked the paywall is refused.
unlock_paywall_OncePerUser(ctx, content_id) ==
    LET paywall == paywalls[ctx.paywall]
        amount == paywall.price
    IN  IF \/ paywall.token_mint # ctx.token_mint
           \/ acctMint[ctx.user_token_account] # ctx.token_mint
           \/ acctMint[ctx.creator_token_account] # ctx.token_mint
        THEN Outcome("InvalidTokenMint", profiles, paywalls, balance, events)
        ELSE IF \E i \in 1 .. Len(events) :
                   /\ events[i].kind = "PaywallUnlockEvent"
                   /\ events[i].user = ctx.user
                   /\ events[i].creator = paywall.creator
                   /\ events[i].content_id = content_id
        THEN Outcome("AlreadyUnlocked", profiles, paywalls, balance, events)
        ELSE LET cpi == token_transfer(balance, ctx.user_token_account,
                                       ctx.creator_token_account, ctx.user, amount)
             IN  IF cpi.err # "Ok"
                 THEN Outcome(cpi.err, profiles, paywalls, balance, events)
                 ELSE Outcome("Ok", profiles,
                              [paywalls EXCEPT ![ctx.paywall].access_count = @ + 1],
                              cpi.balance,
                              Append(events,
                                     PaywallUnlockEvent(ctx.user, paywall.creator,
                                                        content_id, paywall.token_mint,
                                                        amount)))

\* Mutant of unlock_paywall: the event names as creator the owner of the token
\* account that was credited, and as mint the declared one.
unlock_paywall_EventFromCaller(ctx, content_id) ==
    LET paywall == paywalls[ctx.paywall]
        amount == paywall.price
    IN  IF \/ paywall.token_mint # ctx.token_mint
           \/ acctMint[ctx.user_token_account] # ctx.token_mint
           \/ acctMint[ctx.creator_token_account] # ctx.token_mint
        THEN Outcome("InvalidTokenMint", profiles, paywalls, balance, events)
        ELSE LET cpi == token_transfer(balance, ctx.user_token_account,
                                       ctx.creator_token_account, ctx.user, amount)
             IN  IF cpi.err # "Ok"
                 THEN Outcome(cpi.err, profiles, paywalls, balance, events)
                 ELSE Outcome("Ok", profiles,
                              [paywalls EXCEPT ![ctx.paywall].access_count = @ + 1],
                              cpi.balance,
                              Append(events,
                                     PaywallUnlockEvent(ctx.user,
                                                        acctOwner[ctx.creator_token_account],
                                                        content_id, ctx.token_mint,
                                                        amount)))

\* Mutant of unlock_paywall: the paywall account is closed once it is paid.
unlock_paywall_ClosesPaywall(ctx, content_id) ==
    LET paywall == paywalls[ctx.paywall]
        amount == paywall.price
    IN  IF \/ paywall.token_mint # ctx.token_mint
           \/ acctMint[ctx.user_token_account] # ctx.token_mint
           \/ acctMint[ctx.creator_token_account] # ctx.token_mint
        THEN Outcome("InvalidTokenMint", profiles, paywalls, balance, events)
        ELSE LET cpi == token_transfer(balance, ctx.user_token_account,
                                       ctx.creator_token_account, ctx.user, amount)
             IN  IF cpi.err # "Ok"
                 THEN Outcome(cpi.err, profiles, paywalls, balance, events)
                 ELSE Outcome("Ok", profiles,
                              [paywalls EXCEPT ![ctx.paywall] = Absent],
                              cpi.balance,
                              Append(events,
                                     PaywallUnlockEvent(ctx.user, paywall.creator,
                                                        content_id, paywall.token_mint,
                                                        amount)))

unlock_paywall(ctx, content_id) ==
    LET paywall == paywalls[ctx.paywall]
        amount == paywall.price
    IN  IF \/ paywall.token_mint # ctx.token_mint
           \/ acctMint[ctx.user_token_account] # ctx.token_mint
           \/ acctMint[ctx.creator_token_account] # ctx.token_mint
        THEN Outcome("InvalidTokenMint", profiles, paywalls, balance, events)
        ELSE LET cpi == token_transfer(balance, ctx.user_token_account,
                                       ctx.creator_token_account, ctx.user, amount)
             IN  IF cpi.err # "Ok"
                 THEN Outcome(cpi.err, profiles, paywalls, balance, events)
                 ELSE IF overflow_checks /\ paywall.access_count = U64Max
                 \* paywall.access_count += 1 panics, after the transfer
                 THEN Outcome("ProgramFailedToComplete", profiles, paywalls,
                              cpi.balance, events)
                 ELSE Outcome("Ok", profiles,
                              [paywalls EXCEPT ![ctx.paywall].access_count =
                                                   (@ + 1) % (U64Max + 1)],
                              cpi.balance,
                              Append(events,
                                     PaywallUnlockEvent(ctx.user, paywall.creator,
                                                        content_id, paywall.token_mint,
                                                        amount)))

(* ------------------------- instruction dispatch ------------------------- *)
\* An instruction whose account set is rejected never reaches its handler.
Rejected(err) == Outcome(err, profiles, paywalls, balance, events)

\* What the ledger keeps of an instruction: everything the handler wrote when it
\* returned Ok, nothing when it returned Err (the accounts are written back only
\* after Ok, and the failed transaction is rolled back with its inner transfer
\* and its log).
\* Mutant of Commit: what the handler wrote is kept whatever it returned.
Commit_Always(out, before, after) == after

Commit(out, before, after) == IF out.err = "Ok" THEN after ELSE before

\* One instruction, from submission to commit or rollback.  Any instruction can
\* be the one under observation: its inputs, its result and the ledger it was
\* submitted to are then recorded in `last`, and the behaviour is followed no
\* further.
Execute(op, args, out, observe) ==
    /\ profiles' = Commit(out, profiles, out.profiles)
    /\ paywalls' = Commit(out, paywalls, out.paywalls)
    /\ balance' = Commit(out, balance, out.balance)
    /\ events' = Commit(out, events, out.events)
    /\ succeeded' = IF out.err = "Ok" THEN succeeded + 1 ELSE succeeded
    /\ last' = IF observe
               THEN [op |-> op, err |-> out.err, args |-> args,
                     before |-> [profiles |-> profiles, paywalls |-> paywalls,
                                 balance |-> balance, events |-> events]]
               ELSE last

InitializeUserIx(ctx, observe) ==
    /\ Execute("initialize_user", [ctx |-> ctx],
               IF InitializeUser(ctx) # "Ok" THEN Rejected(InitializeUser(ctx))
               ELSE initialize_user(ctx),
               observe)
    /\ UNCHANGED <<tipsOk, unlocksOk>>

TipIx(ctx, amount, action, _token_mint, observe) ==
    LET out == IF Tip(ctx) # "Ok" THEN Rejected(Tip(ctx))
               ELSE tip(ctx, amount, action, _token_mint)
    IN  /\ Execute("tip",
                   [ctx |-> ctx, amount |-> amount, action |-> action,
                    token_mint |-> _token_mint],
                   out, observe)
        /\ tipsOk' = IF out.err = "Ok"
                     THEN [tipsOk EXCEPT ![ctx.recipient_profile] = @ + 1]
                     ELSE tipsOk
        /\ UNCHANGED unlocksOk

CreatePaywallIx(ctx, content_id, price, token_mint, observe) ==
    /\ Execute("create_paywall",
               [ctx |-> ctx, content_id |-> content_id, price |-> price,
                token_mint |-> token_mint],
               IF CreatePaywall(ctx, content_id) # "Ok"
               THEN Rejected(CreatePaywall(ctx, content_id))
               ELSE create_paywall(ctx, content_id, price, token_mint),
               observe)
    /\ UNCHANGED <<tipsOk, unlocksOk>>

UnlockPaywallIx(ctx, content_id, observe) ==
    LET out == IF UnlockPaywall(ctx, content_id) # "Ok"
               THEN Rejected(UnlockPaywall(ctx, content_id))
               ELSE unlock_paywall(ctx, content_id)
    IN  /\ Execute("unlock_paywall", [ctx |-> ctx, content_id |-> content_id],
                   out, observe)
        /\ unlocksOk' = IF out.err = "Ok"
                        THEN [unlocksOk EXCEPT ![ctx.paywall] = @ + 1]
                        ELSE unlocksOk
        /\ UNCHANGED tipsOk

\* What tip and unlock_paywall come to on the ledger as it is: the rejection of
\* the account set, or else what the handler returns.
TipOutcome(ctx, amount, action, _token_mint) ==
    IF Tip(ctx) # "Ok" THEN Rejected(Tip(ctx))
    ELSE tip(ctx, amount, action, _token_mint)

UnlockOutcome(ctx, content_id) ==
    IF UnlockPaywall(ctx, content_id) # "Ok"
    THEN Rejected(UnlockPaywall(ctx, content_id))
    ELSE unlock_paywall(ctx, content_id)

(* ------------------------------ account sets ---------------------------- *)
\* The account sets a client can submit: any address of the universe in any
\* position.
InitializeUserCtx == [user_profile : ProfileAddrs, user : Identity]
TipCtx ==
    [recipient_profile : ProfileAddrs, sender_token_account : TokenAccts,
     recipient_token_account : TokenAccts, sender : Identity,
     recipient : Identity, token_mint : Mints]
CreatePaywallCtx == [paywall : PaywallAddrs, creator : Identity]
UnlockPaywallCtx ==
    [paywall : PaywallAddrs, user_token_account : TokenAccts,
     creator_token_account : TokenAccts, user : Identity, token_mint : Mints]

\* A client submits an instruction while fewer than MaxOps instructions have
\* succeeded and no instruction has been put under observation.
CanSubmit == last = NoCall /\ succeeded < MaxOps

SubmitInitializeUser ==
    /\ CanSubmit
    /\ \E ctx \in InitializeUserCtx, observe \in BOOLEAN :
          InitializeUserIx(ctx, observe)

SubmitTip ==
    /\ CanSubmit
    /\ \E ctx \in TipCtx, amount \in Amounts, action \in ActionTexts,
          _token_mint \in Mints, observe \in BOOLEAN :
          TipIx(ctx, amount, action, _token_mint, observe)

SubmitCreatePaywall ==
    /\ CanSubmit
    /\ \E ctx \in CreatePaywallCtx, content_id \in ContentIds, price \in Amounts,
          token_mint \in Mints, observe \in BOOLEAN :
          CreatePaywallIx(ctx, content_id, price, token_mint, observe)

SubmitUnlockPaywall ==
    /\ CanSubmit
    /\ \E ctx \in UnlockPaywallCtx, content_id \in ContentIds, observe \in BOOLEAN :
          UnlockPaywallIx(ctx, content_id, observe)

Next ==
    \/ SubmitInitializeUser
    \/ SubmitTip
    \/ SubmitCreatePaywall
    \/ SubmitUnlockPaywall

Spec == Init /\ [][Next]_vars

\* A ledger late in the life of the program: A's profile and A's paywall for
\* "x" have been used until their counters are at the top of the u64 range or
\* one below it, B's profile is new.  Two more successful instructions are
\* followed from there.
InitTop ==
    /\ \E n \in {U64Max - 1, U64Max} :
          profiles = [a \in ProfileAddrs |->
                         IF a = ProfileAddr("A") THEN UserProfile("A", n)
                         ELSE UserProfile("B", 0)]
    /\ \E n \in {U64Max - 1, U64Max} :
          paywalls = [a \in PaywallAddrs |->
                         IF a = PaywallAddr("A", "x")
                         THEN Paywall("A", "x", MaxAmount, "M", n)
                         ELSE Absent]
    /\ balance = InitBalance
    /\ events = <<>>
    /\ last = NoCall
    /\ tipsOk = [a \in ProfileAddrs |-> 0]
    /\ unlocksOk = [a \in PaywallAddrs |-> 0]
    /\ succeeded = MaxOps - 2

SpecTop == InitTop /\ [][Next]_vars

(* ======================================================================= *)
(*                               Properties                                *)
(* ======================================================================= *)
\* The ledger now, in the shape of last.before.
LedgerNow ==
    [profiles |-> profiles, paywalls |-> paywalls, balance |-> balance,
     events |-> events]

\* The observed instruction left the ledger exactly as it found it.
NothingChanged ==
    /\ profiles = last.before.profiles
    /\ paywalls = last.before.paywalls
    /\ balance = last.before.balance
    /\ events = last.before.events

\* The observed tip reached its handler: the profile passed exists and its
\* address is the one derived from the recipient passed.
TipReachedHandler ==
    /\ last.op = "tip"
    /\ last.before.profiles[last.args.ctx.recipient_profile].present
    /\ last.args.ctx.recipient_profile = ProfileAddr(last.args.ctx.recipient)

\* The observed unlock reached its handler: the paywall passed exists and its
\* address is the one derived from its creator and the content_id argument.
UnlockReachedHandler ==
    /\ last.op = "unlock_paywall"
    /\ last.before.paywalls[last.args.ctx.paywall].present
    /\ last.args.ctx.paywall =
          PaywallAddr(last.before.paywalls[last.args.ctx.paywall].creator,
                      last.args.content_id)

(* C1: when the token transfer inside tip or unlock_paywall fails, the state
   after the instruction is the state before it: interaction_count and
   access_count are as they were, no balance has changed and no event has been
   appended, although tip increments interaction_count before the transfer. *)
Atomicity ==
    (last.op \in {"tip", "unlock_paywall"} /\ last.err \in TransferErrors)
        => NothingChanged

\* A tip on a profile that has been tipped before fails in the transfer for
\* lack of funds.
AtomicityWitness ==
    /\ last.op = "tip"
    /\ last.err = "InsufficientFunds"
    /\ profiles[last.args.ctx.recipient_profile].interaction_count = 1

(* C2: a tip whose sender token account mint, recipient token account mint and
   declared mint are not all equal fails with InvalidTokenMint, and leaves every
   balance, every interaction_count and the event log as they were. *)
TipMintConsistency ==
    (/\ TipReachedHandler
     /\ ~(/\ acctMint[last.args.ctx.sender_token_account] = last.args.ctx.token_mint
          /\ acctMint[last.args.ctx.recipient_token_account] = last.args.ctx.token_mint))
        => (last.err = "InvalidTokenMint" /\ NothingChanged)

\* A tip between two accounts of one mint that declares the other mint has
\* been refused, on a profile that has been tipped before.
TipMintConsistencyWitness ==
    /\ TipReachedHandler
    /\ last.err = "InvalidTokenMint"
    /\ acctMint[last.args.ctx.sender_token_account]
          = acctMint[last.args.ctx.recipient_token_account]
    /\ last.args.ctx.sender_token_account # last.args.ctx.recipient_token_account
    /\ profiles[last.args.ctx.recipient_profile].interaction_count = 1

(* C3: an unlock_paywall in which the paywall's stored token_mint, the user
   token account's mint, the creator token account's mint and the declared mint
   are not all equal fails with InvalidTokenMint; no tokens move, access_count
   is unchanged and no PaywallUnlockEvent is emitted. *)
UnlockMintConsistency ==
    (/\ UnlockReachedHandler
     /\ ~(/\ last.before.paywalls[last.args.ctx.paywall].token_mint
                = last.args.ctx.token_mint
          /\ acctMint[last.args.ctx.user_token_account] = last.args.ctx.token_mint
          /\ acctMint[last.args.ctx.creator_token_account] = last.args.ctx.token_mint))
        => (last.err = "InvalidTokenMint" /\ NothingChanged)

\* An unlock whose token accounts and declared mint agree with each other but
\* not with the paywall's stored mint has been refused.
UnlockMintConsistencyWitness ==
    /\ UnlockReachedHandler
    /\ last.err = "InvalidTokenMint"
    /\ acctMint[last.args.ctx.user_token_account] = last.args.ctx.token_mint
    /\ acctMint[last.args.ctx.creator_token_account] = last.args.ctx.token_mint
    /\ paywalls[last.args.ctx.paywall].token_mint # last.args.ctx.token_mint
    /\ paywalls[last.args.ctx.paywall].access_count = 1

\* The token accounts and the price of the observed unlock, as submitted.
UnlockFrom == last.args.ctx.user_token_account
UnlockTo == last.args.ctx.creator_token_account
UnlockPrice == last.before.paywalls[last.args.ctx.paywall].price
UnlockSucceeded == last.op = "unlock_paywall" /\ last.err = "Ok"

(* C4: every successful unlock_paywall on a paywall credits a token account
   that belongs to the paywall's creator. *)
UnlockPaysCreator ==
    UnlockSucceeded =>
        acctOwner[UnlockTo] = last.before.paywalls[last.args.ctx.paywall].creator

(* C5, as claimed: on every successful unlock_paywall the user token account's
   balance decreases by exactly the stored price, the credited account's
   balance increases by exactly the same amount, and no other balance changes. *)
UnlockMovesPrice ==
    UnlockSucceeded =>
        /\ balance[UnlockFrom] = last.before.balance[UnlockFrom] - UnlockPrice
        /\ balance[UnlockTo] = last.before.balance[UnlockTo] + UnlockPrice
        /\ \A t \in TokenAccts \ {UnlockFrom, UnlockTo} :
              balance[t] = last.before.balance[t]

(* C5, amended: on every successful unlock_paywall whose user token account and
   credited account are two accounts, the former's balance decreases by exactly
   the paywall's stored price and the latter's increases by exactly that
   amount; when they are one and the same account its balance does not change;
   no other balance changes, and the price stored in the paywall is the one
   given at its creation, whatever the caller of unlock_paywall passes. *)
UnlockMovesPriceBetweenTwo ==
    UnlockSucceeded =>
        /\ balance =
              IF UnlockFrom = UnlockTo THEN last.before.balance
              ELSE [last.before.balance EXCEPT ![UnlockFrom] = @ - UnlockPrice,
                                               ![UnlockTo] = @ + UnlockPrice]
        /\ paywalls[last.args.ctx.paywall].price = UnlockPrice
        /\ events[Len(events)].amount = UnlockPrice

\* An unlock has moved a price of one unit from one account to another.
UnlockMovesPriceWitness ==
    /\ UnlockSucceeded
    /\ UnlockFrom # UnlockTo
    /\ UnlockPrice = 1
    /\ balance[UnlockTo] = last.before.balance[UnlockTo] + 1

(* C6: in every reachable state the interaction_count of every existing
   UserProfile is the number of tips on that profile that returned Ok since it
   was created; a failed tip adds nothing and a successful one adds exactly 1. *)
TipCounterCountsSuccesses ==
    /\ \A a \in ProfileAddrs :
          profiles[a].present => profiles[a].interaction_count = tipsOk[a]
    /\ last.op = "tip" =>
          \A a \in ProfileAddrs :
             profiles[a].present =>
                profiles[a].interaction_count =
                   last.before.profiles[a].interaction_count
                   + (IF last.err = "Ok" /\ a = last.args.ctx.recipient_profile
                      THEN 1 ELSE 0)

\* A profile has been tipped twice, the second time with nothing.
TipCounterWitness ==
    /\ last.op = "tip"
    /\ last.err = "Ok"
    /\ last.args.amount = 0
    /\ profiles[last.args.ctx.recipient_profile].interaction_count = 2

(* C7: the access_count of a paywall is the number of unlock_paywall
   instructions on it that returned Ok, and nothing remembers who has unlocked:
   an unlock by a user who has unlocked the paywall before succeeds whenever
   the mints agree and the user's own account holds the price, moves the price
   again and raises access_count by one more. *)
AccessCounterCountsUnlocks ==
    /\ \A a \in PaywallAddrs :
          paywalls[a].present => paywalls[a].access_count = unlocksOk[a]
    /\ (/\ UnlockReachedHandler
        /\ \E i \in 1 .. Len(last.before.events) :
              /\ last.before.events[i].kind = "PaywallUnlockEvent"
              /\ last.before.events[i].user = last.args.ctx.user
              /\ PaywallAddr(last.before.events[i].creator,
                             last.before.events[i].content_id) = last.args.ctx.paywall
        /\ last.before.paywalls[last.args.ctx.paywall].token_mint
              = last.args.ctx.token_mint
        /\ acctMint[UnlockFrom] = last.args.ctx.token_mint
        /\ acctMint[UnlockTo] = last.args.ctx.token_mint
        /\ acctOwner[UnlockFrom] = last.args.ctx.user
        /\ last.before.balance[UnlockFrom] >= UnlockPrice)
       => /\ last.err = "Ok"
          /\ paywalls[last.args.ctx.paywall].access_count =
                last.before.paywalls[last.args.ctx.paywall].access_count + 1
          /\ UnlockFrom # UnlockTo =>
                balance[UnlockTo] = last.before.balance[UnlockTo] + UnlockPrice
          /\ Len(events) = Len(last.before.events) + 1

\* User B has unlocked A's paywall twice, paying the price of one unit to A
\* each time.
AccessCounterWitness ==
    /\ UnlockSucceeded
    /\ last.args.ctx.user = "B"
    /\ UnlockFrom = "bM" /\ UnlockTo = "aM"
    /\ UnlockPrice = 1
    /\ paywalls[last.args.ctx.paywall].creator = "A"
    /\ paywalls[last.args.ctx.paywall].access_count = 2
    /\ balance["aM"] = InitBalance["aM"] + 2
    /\ Len(events) = 2 /\ events[1] = events[2]

\* The observed initialize_user is for the profile of its signer: the address
\* passed is the one derived from the signer's key.
InitializeUserForOwner ==
    /\ last.op = "initialize_user"
    /\ last.args.ctx.user_profile = ProfileAddr(last.args.ctx.user)

(* C8: initialize_user for an owner with no profile succeeds and creates a
   profile with owner set to that identity and interaction_count 0;
   initialize_user for an owner that has a profile fails with AlreadyExists and
   leaves that profile, with the interaction_count tips have given it, and
   everything else unchanged. *)
IdempotentCreationGuard ==
    InitializeUserForOwner =>
        IF last.before.profiles[last.args.ctx.user_profile].present
        THEN last.err = "AlreadyExists" /\ NothingChanged
        ELSE /\ last.err = "Ok"
             /\ profiles[last.args.ctx.user_profile]
                   = UserProfile(last.args.ctx.user, 0)

\* A second initialize_user has been refused for an owner whose profile has
\* been tipped in between.
IdempotentCreationWitness ==
    /\ InitializeUserForOwner
    /\ last.err = "AlreadyExists"
    /\ profiles[last.args.ctx.user_profile].owner = last.args.ctx.user
    /\ profiles[last.args.ctx.user_profile].interaction_count = 1

\* The observed create_paywall is for the pair (signer, content_id): the address
\* passed is the one derived from the creator's key and the content_id argument.
CreatePaywallForPair ==
    /\ last.op = "create_paywall"
    /\ last.args.ctx.paywall
          = PaywallAddr(last.args.ctx.creator, last.args.content_id)

(* C9: create_paywall fails with AlreadyExists exactly when a paywall exists
   for the same (creator, content_id) pair, and then leaves its price,
   token_mint and access_count unchanged; otherwise it creates the paywall of
   that pair and touches no other paywall, so that paywalls of one creator with
   different content ids, and of one content id with different creators, exist
   side by side. *)
PaywallUniqueness ==
    /\ CreatePaywallForPair =>
          IF last.before.paywalls[last.args.ctx.paywall].present
          THEN last.err = "AlreadyExists" /\ NothingChanged
          ELSE /\ last.err = "Ok"
               /\ paywalls =
                     [last.before.paywalls EXCEPT ![last.args.ctx.paywall] =
                         Paywall(last.args.ctx.creator, last.args.content_id,
                                 last.args.price, last.args.token_mint, 0)]
    /\ \A c \in Identity, x \in ContentIds :
          paywalls[PaywallAddr(c, x)].present =>
             /\ paywalls[PaywallAddr(c, x)].creator = c
             /\ paywalls[PaywallAddr(c, x)].content_id = x

\* A second create_paywall for a pair has been refused: it named another price
\* and mint than the paywall holds, and the paywall has been unlocked once.
PaywallUniquenessWitness ==
    /\ CreatePaywallForPair
    /\ last.err = "AlreadyExists"
    /\ paywalls[last.args.ctx.paywall].price # last.args.price
    /\ paywalls[last.args.ctx.paywall].token_mint # last.args.token_mint
    /\ paywalls[last.args.ctx.paywall].access_count = 1

\* The observed tip names a recipient and passes an existing profile whose owner
\* is another identity; apart from that the tip is in order: the mints agree,
\* the sender owns the source account and it holds the amount.
TipWithForeignProfile ==
    /\ last.op = "tip"
    /\ last.before.profiles[last.args.ctx.recipient_profile].present
    /\ last.before.profiles[last.args.ctx.recipient_profile].owner
          # last.args.ctx.recipient
    /\ acctMint[last.args.ctx.sender_token_account] = last.args.ctx.token_mint
    /\ acctMint[last.args.ctx.recipient_token_account] = last.args.ctx.token_mint
    /\ acctOwner[last.args.ctx.sender_token_account] = last.args.ctx.sender
    /\ last.before.balance[last.args.ctx.sender_token_account] >= last.args.amount

(* C10, as claimed: a tip naming recipient R together with a profile whose
   owner is a different identity succeeds and increments that profile's
   interaction_count. *)
TipForeignProfileSucceeds ==
    TipWithForeignProfile =>
        /\ last.err = "Ok"
        /\ profiles[last.args.ctx.recipient_profile].interaction_count =
              last.before.profiles[last.args.ctx.recipient_profile].interaction_count + 1

(* C10, amended: tip does not compare the recipient with the owner field of the
   profile, but the Tip account set requires the profile's address to be the
   one derived from the recipient's key, and the profile at that address is
   owned by that identity: a tip naming recipient R together with a profile
   whose owner is a different identity fails with ConstraintSeeds and changes
   nothing, and every tip that succeeds increments the profile whose owner is
   its recipient. *)
TipBoundToRecipientBySeeds ==
    /\ TipWithForeignProfile => (last.err = "ConstraintSeeds" /\ NothingChanged)
    /\ (last.op = "tip" /\ last.err = "Ok") =>
          /\ profiles[last.args.ctx.recipient_profile].owner = last.args.ctx.recipient
          /\ profiles[last.args.ctx.recipient_profile].interaction_count =
                last.before.profiles[last.args.ctx.recipient_profile].interaction_count + 1

\* A tip for recipient B that passes A's profile, itself tipped before, has
\* been refused.
TipBoundToRecipientWitness ==
    /\ TipWithForeignProfile
    /\ last.err = "ConstraintSeeds"
    /\ last.args.ctx.recipient = "B"
    /\ profiles[last.args.ctx.recipient_profile].owner = "A"
    /\ profiles[last.args.ctx.recipient_profile].interaction_count = 1

(* ----------------------- order of two operations ------------------------ *)
\* The tips and unlocks a client can submit.
Operations ==
    [op : {"tip"}, ctx : TipCtx, amount : Amounts, action : ActionTexts,
     token_mint : Mints]
    \cup [op : {"unlock_paywall"}, ctx : UnlockPaywallCtx, content_id : ContentIds]

OutcomeOf(i) ==
    IF i.op = "tip" THEN TipOutcome(i.ctx, i.amount, i.action, i.token_mint)
    ELSE UnlockOutcome(i.ctx, i.content_id)

\* The record an operation counts on, and the token account it pays from.
TargetOf(i) == IF i.op = "tip" THEN i.ctx.recipient_profile ELSE i.ctx.paywall
SourceOf(i) ==
    IF i.op = "tip" THEN i.ctx.sender_token_account ELSE i.ctx.user_token_account

\* The record at address a in a ledger L.
RecordOf(L, a) == IF a \in ProfileAddrs THEN L.profiles[a] ELSE L.paywalls[a]

\* This step is a tip or an unlock that succeeded, put under observation.
FirstDone ==
    /\ last = NoCall
    /\ last' # NoCall
    /\ last'.op \in {"tip", "unlock_paywall"}
    /\ last'.err = "Ok"

FirstTarget ==
    IF last'.op = "tip" THEN last'.args.ctx.recipient_profile
    ELSE last'.args.ctx.paywall

\* Operation i comes to the same whether it is executed before the operation
\* of this step or after it: the same result, the same record left on its
\* target, and the target `first` of this step's operation left as that one
\* wrote it.
\* (An operation that fails changes nothing, so the steps to look at are the
\* ones that succeed; the other order is the case with the two exchanged.)
SameEitherOrder(i, first) ==
    LET ahead == OutcomeOf(i)
        behind == OutcomeOf(i)'
        keptAhead == Commit(ahead, LedgerNow, ahead)
        keptBehind == Commit(behind, LedgerNow', behind)
    IN  /\ behind.err = ahead.err
        /\ RecordOf(keptBehind, TargetOf(i)) = RecordOf(keptAhead, TargetOf(i))
        /\ RecordOf(keptBehind, first) = RecordOf(LedgerNow', first)

(* C11, as claimed: for any two operations that count on different records
   (tips to two profiles, unlocks of two paywalls, a tip and an unlock),
   executing them in either order yields the same final interaction_count /
   access_count for every record. *)
OrderIndependence ==
    [][FirstDone =>
          \A first \in ProfileAddrs \cup PaywallAddrs :
             first = FirstTarget =>
                \A i \in Operations :
                   TargetOf(i) # first => SameEitherOrder(i, first)]_vars

(* C11, amended: for any two operations that count on different records and
   of which neither changes the balance of the token account the other pays
   from, executing them in either order yields the same final
   interaction_count / access_count for every record; two operations that
   draw on one token account can each succeed only when executed first. *)
OrderIndependenceApart ==
    [][FirstDone =>
          \A first \in ProfileAddrs \cup PaywallAddrs :
             first = FirstTarget =>
                \A i \in Operations :
                   (/\ TargetOf(i) # first
                    /\ balance'[SourceOf(i)] = balance[SourceOf(i)])
                      => SameEitherOrder(i, first)]_vars

\* A tip on A's profile has moved one unit from aM to bM while B's profile
\* exists, to be tipped from bN before or after.
OrderIndependenceWitness ==
    /\ last.op = "tip" /\ last.err = "Ok"
    /\ last.args.ctx.recipient = "A"
    /\ last.args.ctx.sender_token_account = "aM"
    /\ last.args.ctx.recipient_token_account = "bM"
    /\ balance["bM"] = last.before.balance["bM"] + 1
    /\ profiles[ProfileAddr("B")].present

(* ------------------------------ zero-amount tip ------------------------- *)
\* The observed tip reached its handler with both token accounts of the
\* declared mint.
TipMintsConsistent ==
    /\ TipReachedHandler
    /\ acctMint[last.args.ctx.sender_token_account] = last.args.ctx.token_mint
    /\ acctMint[last.args.ctx.recipient_token_account] = last.args.ctx.token_mint

\* The ledger the observed tip leaves when it succeeds: the profile passed
\* counts one more and one TipEvent is appended; the balances are bal.
TipLedger(bal) ==
    [profiles |-> [last.before.profiles
                      EXCEPT ![last.args.ctx.recipient_profile].interaction_count = @ + 1],
     paywalls |-> last.before.paywalls,
     balance  |-> bal,
     events   |-> Append(last.before.events,
                         TipEvent(last.args.ctx.sender, last.args.ctx.recipient,
                                  last.args.ctx.token_mint, last.args.amount,
                                  last.args.action))]

(* C12: a tip of amount 0 with consistent mints, on an existing profile and
   signed by the owner of the sender token account, succeeds: no balance
   changes, the interaction_count of the recipient's profile grows by 1 and a
   TipEvent with amount 0 is appended. *)
ZeroAmountTip ==
    (/\ TipMintsConsistent
     /\ last.args.amount = 0
     /\ acctOwner[last.args.ctx.sender_token_account] = last.args.ctx.sender)
        => (/\ last.err = "Ok"
            /\ LedgerNow = TipLedger(last.before.balance)
            /\ events[Len(events)].kind = "TipEvent"
            /\ events[Len(events)].amount = 0)

\* A tip of 0 between two different accounts has succeeded on a profile that
\* had been tipped before.
ZeroAmountTipWitness ==
    /\ TipMintsConsistent
    /\ last.err = "Ok"
    /\ last.args.amount = 0
    /\ last.args.ctx.sender_token_account # last.args.ctx.recipient_token_account
    /\ last.before.profiles[last.args.ctx.recipient_profile].interaction_count = 1
    /\ profiles[last.args.ctx.recipient_profile].interaction_count = 2

(* ------------------------- content of the unlock event ------------------ *)
\* The paywall record an unlock event names.
PaywallOfEvent(e) == paywalls[PaywallAddr(e.creator, e.content_id)]

\* The events of the log that are unlock events.
UnlockEvents == {k \in 1 .. Len(events) : events[k].kind = "PaywallUnlockEvent"}

(* C13: every PaywallUnlockEvent in the log names a paywall that exists and
   carries that record's creator, content_id, token_mint and price; the event
   of the observed unlock is the last of the log, its user is the signer, its
   other fields are read from the record passed, and its amount is the amount
   by which the user's token account was debited and the other credited. *)
UnlockEventContent ==
    /\ \A k \in UnlockEvents :
          LET e == events[k]
              paywall == PaywallOfEvent(e)
          IN  /\ paywall.present
              /\ e.creator = paywall.creator
              /\ e.content_id = paywall.content_id
              /\ e.token_mint = paywall.token_mint
              /\ e.amount = paywall.price
    /\ UnlockSucceeded =>
          LET paywall == last.before.paywalls[last.args.ctx.paywall]
          IN  /\ events = Append(last.before.events,
                                 PaywallUnlockEvent(last.args.ctx.user, paywall.creator,
                                                    paywall.content_id,
                                                    paywall.token_mint, paywall.price))
              /\ events[Len(events)].content_id = last.args.content_id
              /\ UnlockFrom # UnlockTo =>
                    /\ balance[UnlockFrom]
                          = last.before.balance[UnlockFrom] - events[Len(events)].amount
                    /\ balance[UnlockTo]
                          = last.before.balance[UnlockTo] + events[Len(events)].amount

\* An unlock of a paywall of creator A, priced 1, has been paid by B from one
\* token account into another.
UnlockEventContentWitness ==
    /\ UnlockSucceeded
    /\ events[Len(events)].kind = "PaywallUnlockEvent"
    /\ events[Len(events)].creator = "A"
    /\ events[Len(events)].user = "B"
    /\ events[Len(events)].amount = 1
    /\ UnlockFrom # UnlockTo

(* ------------------------ the token_mint argument of tip ---------------- *)
(* C14: a tip whose token_mint argument differs from the mint of the sender
   token account or of the recipient token account fails with
   InvalidTokenMint. *)
TipArgumentValidated ==
    (/\ TipReachedHandler
     /\ \/ acctMint[last.args.ctx.sender_token_account] # last.args.token_mint
        \/ acctMint[last.args.ctx.recipient_token_account] # last.args.token_mint)
        => last.err = "InvalidTokenMint"

(* ----------------------------- record lifecycle ------------------------- *)
\* This step is a successful initialize_user that creates the profile at a.
ProfileCreatedAt(a) ==
    \E ctx \in InitializeUserCtx, observe \in BOOLEAN :
       /\ ctx.user_profile = a
       /\ a = ProfileAddr(ctx.user)
       /\ InitializeUser(ctx) = "Ok"
       /\ InitializeUserIx(ctx, observe)

\* This step is a successful create_paywall that creates the paywall at a.
PaywallCreatedAt(a) ==
    \E ctx \in CreatePaywallCtx, content_id \in ContentIds, price \in Amounts,
       token_mint \in Mints, observe \in BOOLEAN :
       /\ ctx.paywall = a
       /\ a = PaywallAddr(ctx.creator, content_id)
       /\ CreatePaywall(ctx, content_id) = "Ok"
       /\ CreatePaywallIx(ctx, content_id, price, token_mint, observe)

(* C15: a UserProfile or Paywall is absent or present; no step of
   initialize_user, tip, create_paywall or unlock_paywall, successful or
   failed, makes a present record absent, and a step in which a record becomes
   present is a successful initialize_user / create_paywall for its key. *)
RecordLifecycle ==
    [][/\ \A a \in ProfileAddrs :
             /\ profiles[a].present \in BOOLEAN
             /\ profiles[a].present => profiles'[a].present
             /\ (~profiles[a].present /\ profiles'[a].present) => ProfileCreatedAt(a)
       /\ \A a \in PaywallAddrs :
             /\ paywalls[a].present \in BOOLEAN
             /\ paywalls[a].present => paywalls'[a].present
             /\ (~paywalls[a].present /\ paywalls'[a].present) => PaywallCreatedAt(a)]_vars

\* A paywall has been created and unlocked twice, the second time under
\* observation, and is still there.
RecordLifecycleWitness ==
    /\ UnlockSucceeded
    /\ last.before.paywalls[last.args.ctx.paywall].present
    /\ paywalls[last.args.ctx.paywall].present
    /\ paywalls[last.args.ctx.paywall].access_count = 2

(* ------------------------ frame of the instructions --------------------- *)
\* The profile at a is, but for its counter, what it was before the observed
\* instruction.
ProfileIdentityKept(a) == profiles[a].owner = last.before.profiles[a].owner

\* The paywall at a is, but for its counter, what it was before the observed
\* instruction.
PaywallIdentityKept(a) ==
    /\ paywalls[a].creator = last.before.paywalls[a].creator
    /\ paywalls[a].content_id = last.before.paywalls[a].content_id
    /\ paywalls[a].price = last.before.paywalls[a].price
    /\ paywalls[a].token_mint = last.before.paywalls[a].token_mint

(* C16: an instruction leaves the owner of every existing UserProfile and the
   creator, content_id, price and token_mint of every existing Paywall as they
   were; an interaction_count changes only in a tip and only on the profile
   passed to it, an access_count only in an unlock_paywall and only on the
   paywall passed to it; initialize_user and create_paywall change no existing
   record and no token balance.  (Stated of the instructions that changed a
   record or a balance; the others changed nothing.) *)
FrameOfInstructions ==
    (/\ last # NoCall
     /\ <<profiles, paywalls, balance>>
           # <<last.before.profiles, last.before.paywalls, last.before.balance>>) =>
        /\ \A a \in ProfileAddrs :
              last.before.profiles[a].present =>
                 /\ profiles[a].present
                 /\ ProfileIdentityKept(a)
                 /\ profiles[a].interaction_count
                       # last.before.profiles[a].interaction_count
                    => (last.op = "tip" /\ a = last.args.ctx.recipient_profile)
        /\ \A a \in PaywallAddrs :
              last.before.paywalls[a].present =>
                 /\ paywalls[a].present
                 /\ PaywallIdentityKept(a)
                 /\ paywalls[a].access_count # last.before.paywalls[a].access_count
                    => (last.op = "unlock_paywall" /\ a = last.args.ctx.paywall)
        /\ last.op \in {"initialize_user", "create_paywall"} =>
              /\ balance = last.before.balance
              /\ \A a \in ProfileAddrs :
                    last.before.profiles[a].present
                       => profiles[a] = last.before.profiles[a]
              /\ \A a \in PaywallAddrs :
                    last.before.paywalls[a].present
                       => paywalls[a] = last.before.paywalls[a]

\* A tips B, both having a profile: only the count of B's profile has changed.
FrameOfInstructionsWitness ==
    /\ last.op = "tip" /\ last.err = "Ok"
    /\ last.args.ctx.sender = "A"
    /\ last.args.ctx.recipient_profile = ProfileAddr("B")
    /\ last.before.profiles[ProfileAddr("A")].present
    /\ profiles[ProfileAddr("B")].interaction_count = 1
    /\ profiles[ProfileAddr("A")].interaction_count = 0

\* A paywall is created while another, already unlocked, exists.
FrameOfCreationWitness ==
    /\ last.op = "create_paywall" /\ last.err = "Ok"
    /\ \E a \in PaywallAddrs :
          /\ last.before.paywalls[a].present
          /\ last.before.paywalls[a].access_count = 1
          /\ last.before.balance # InitBalance

(* ------------------------------ error precedence ------------------------ *)
\* What token::transfer would answer to the observed tip on the balances the
\* tip was submitted to.
TipTransferAlone ==
    token_transfer(last.before.balance, last.args.ctx.sender_token_account,
                   last.args.ctx.recipient_token_account, last.args.ctx.sender,
                   last.args.amount)

\* What token::transfer would answer to the observed unlock on the balances the
\* unlock was submitted to.
UnlockTransferAlone ==
    token_transfer(last.before.balance, UnlockFrom, UnlockTo, last.args.ctx.user,
                   UnlockPrice)

\* The observed unlock reached its handler with a mint that is not the one of
\* the paywall, of the user's token account and of the creator's.
UnlockMintsDiffer ==
    /\ UnlockReachedHandler
    /\ \/ last.before.paywalls[last.args.ctx.paywall].token_mint
             # last.args.ctx.token_mint
       \/ acctMint[UnlockFrom] # last.args.ctx.token_mint
       \/ acctMint[UnlockTo] # last.args.ctx.token_mint

(* C17: a tip or unlock_paywall that has a mint mismatch and whose transfer
   would fail as well (insufficient balance, wrong authority) returns
   InvalidTokenMint, not the error of the transfer, and changes nothing: the
   mints are compared before token::transfer is invoked. *)
ErrorPrecedence ==
    /\ (/\ TipReachedHandler
        /\ ~TipMintsConsistent
        /\ TipTransferAlone.err # "Ok") => (last.err = "InvalidTokenMint" /\ NothingChanged)
    /\ (/\ UnlockMintsDiffer
        /\ UnlockTransferAlone.err # "Ok")
          => (last.err = "InvalidTokenMint" /\ NothingChanged)

\* A tip of 1 that declares the wrong mint, from an account that is empty and
\* does not belong to the signer, was refused for its mint.
ErrorPrecedenceWitness ==
    /\ TipReachedHandler
    /\ ~TipMintsConsistent
    /\ last.before.balance[last.args.ctx.sender_token_account] = 0
    /\ last.args.amount = 1
    /\ acctOwner[last.args.ctx.sender_token_account] # last.args.ctx.sender
    /\ last.err = "InvalidTokenMint"

(* -------------------- the counters at the top of their range ------------ *)
(* C18: interaction_count and access_count are u64 values that no instruction
   decreases.  A tip on a profile whose counter holds the maximum fails, also
   when its mints do not match, and an unlock_paywall that has passed the mint
   check and the transfer fails on a paywall whose counter holds the maximum;
   either leaves the counter, the balances and the event log as they were. *)
CountersNeverDecrease ==
    /\ \A a \in ProfileAddrs :
          profiles[a].present => profiles[a].interaction_count \in 0 .. U64Max
    /\ \A a \in PaywallAddrs :
          paywalls[a].present => paywalls[a].access_count \in 0 .. U64Max
    /\ last # NoCall =>
          /\ \A a \in ProfileAddrs :
                last.before.profiles[a].present =>
                   profiles[a].interaction_count
                      >= last.before.profiles[a].interaction_count
          /\ \A a \in PaywallAddrs :
                last.before.paywalls[a].present =>
                   paywalls[a].access_count >= last.before.paywalls[a].access_count
    /\ (/\ TipReachedHandler
        /\ last.before.profiles[last.args.ctx.recipient_profile].interaction_count
              = U64Max)
          => (last.err = "ProgramFailedToComplete" /\ NothingChanged)
    /\ (/\ UnlockReachedHandler
        /\ last.before.paywalls[last.args.ctx.paywall].access_count = U64Max)
          => /\ last.err # "Ok"
             /\ NothingChanged
             /\ (~UnlockMintsDiffer /\ UnlockTransferAlone.err = "Ok")
                   => last.err = "ProgramFailedToComplete"

\* A tip with mismatched mints on a profile whose counter has just reached the
\* maximum has failed in the increment.
CountersNeverDecreaseWitness ==
    /\ TipReachedHandler
    /\ ~TipMintsConsistent
    /\ succeeded = MaxOps - 1
    /\ profiles[last.args.ctx.recipient_profile].interaction_count = U64Max
    /\ last.err = "ProgramFailedToComplete"

\* An unlock whose transfer of the price would go through has failed on a
\* paywall whose counter holds the maximum, and the price has not been paid.
CountersAtTopUnlockWitness ==
    /\ UnlockReachedHandler
    /\ UnlockFrom # UnlockTo
    /\ UnlockTransferAlone.err = "Ok"
    /\ last.err = "ProgramFailedToComplete"
    /\ balance = last.before.balance

(* ------------------------------ token conservation ---------------------- *)
\* The sum of the balances bal of the token accounts in the set accts.
RECURSIVE SumOfBalances(_, _)
SumOfBalances(bal, accts) ==
    IF accts = {} THEN 0
    ELSE LET t == CHOOSE x \in accts : TRUE
         IN  bal[t] + SumOfBalances(bal, accts \ {t})

\* The tokens of mint m that the token accounts hold under the balances bal.
MintSupply(bal, m) == SumOfBalances(bal, {t \in TokenAccts : acctMint[t] = m})

\* The tokens of each mint that exist at the start.
InitSupply == [m \in Mints |-> MintSupply(InitBalance, m)]

(* C19: for every mint, the sum of the balances of the token accounts of that
   mint is in every reachable state what it was at the start: tip and
   unlock_paywall move tokens between two accounts of one mint, a transfer
   from an account to itself included, and nothing creates or destroys
   tokens. *)
TokenConservation ==
    \A m \in Mints : MintSupply(balance, m) = InitSupply[m]

\* A tip of 1 from an account to itself has succeeded after tokens have moved
\* between two accounts.
TokenConservationWitness ==
    /\ last.op = "tip" /\ last.err = "Ok"
    /\ last.args.amount = 1
    /\ last.args.ctx.sender_token_account = last.args.ctx.recipient_token_account
    /\ last.before.balance # InitBalance

(* ----------------------- the event log and the counters ----------------- *)
\* The number of TipEvents of the log whose recipient is r.
TipEventsFor(r) ==
    Len(SelectSeq(events, LAMBDA e : e.kind = "TipEvent" /\ e.recipient = r))

\* The number of PaywallUnlockEvents of the log for the pair (c, x).
UnlockEventsFor(c, x) ==
    Len(SelectSeq(events, LAMBDA e : /\ e.kind = "PaywallUnlockEvent"
                                     /\ e.creator = c
                                     /\ e.content_id = x))

(* C20: in every reachable state the log holds, for every identity with a
   profile, as many TipEvents naming it as recipient as its profile's
   interaction_count, and for every paywall as many PaywallUnlockEvents naming
   its (creator, content_id) as its access_count; it holds no event for a
   profile or paywall that is absent. *)
EventLogMatchesCounters ==
    /\ \A r \in Identity :
          TipEventsFor(r) = IF profiles[ProfileAddr(r)].present
                            THEN profiles[ProfileAddr(r)].interaction_count
                            ELSE 0
    /\ \A c \in Identity, x \in ContentIds :
          UnlockEventsFor(c, x) = IF paywalls[PaywallAddr(c, x)].present
                                  THEN paywalls[PaywallAddr(c, x)].access_count
                                  ELSE 0

\* B has been tipped twice, by A and by B, while A has no profile.
EventLogMatchesCountersWitness ==
    /\ last.op = "tip" /\ last.err = "Ok"
    /\ ~profiles[ProfileAddr("A")].present
    /\ profiles[ProfileAddr("B")].interaction_count = 2
    /\ TipEventsFor("B") = 2
    /\ events[1].sender # events[2].sender

====
